---------------------------- MODULE Spec2Model ----------------------------
(***************************************************************************)
(* Model of the snapshot/reporting pipeline of btb_manager_telegram        *)
(* (report.py: build_ticker, get_report, get_previous_reports,             *)
(* save_report, make_snapshot, get_graph, graph_report) and of the update  *)
(* checker (utils.py: update_checker, update_reminder).                    *)
(*                                                                         *)
(* Prices, quantities and totals are floats in the program; the model      *)
(* draws them from small ranges of naturals, on which +, * and the exact   *)
(* comparisons of the program (== 0, <, in) behave as on floats.           *)
(***************************************************************************)
EXTENDS Integers, Sequences, FiniteSets, TLC

VARIABLES
    bt_all_symbols,   \* build_ticker: the argument all_symbols (as a set: the code only uses set(...))
    bt_tickers_raw,   \* build_ticker: tickers_raw after line 21, pair -> price
    bt_result,        \* build_ticker: [status, tickers], status "ok" (returned) or "KeyError" (raised)
    settings,         \* the settings module: COIN_LIST, CURRENCY and the two *_UPDATE_BROADCASTED_BEFORE flags
    gr_env,           \* get_report: what the external services answer (account, tickers_raw, rate)
    gr_result,        \* get_report: [status, report]
    store,            \* the file data/crypto.npy: [exists, array]
    clock,            \* time.time(), in ticks of 1/TicksPerSecond second
    scheduler,        \* the event queue of the scheduler: a set of [time, priority, action, args]
    crypto_report,    \* make_snapshot: the report get_report returned last
    last_run,         \* the event the scheduler ran last: [action, outcome], outcome "ok" or the exception raised
    sent,             \* messages sent with settings.CHAT.send_message, counted by kind
    events_run,       \* number of events the scheduler has run
    gg_request,       \* get_graph: its arguments [relative, symbol, days, graph_type, ref_currency]
    gg_result         \* get_graph: [status, figname, nb_plot, lines, warned]

ticker_vars == <<bt_all_symbols, bt_tickers_raw, bt_result>>

report_vars == <<gr_env, gr_result>>

sched_vars == <<store, clock, scheduler, crypto_report, last_run, sent, events_run>>

graph_vars == <<gg_request, gg_result>>

vars == <<ticker_vars, settings, report_vars, sched_vars, graph_vars>>

-----------------------------------------------------------------------------
(* Bounds of the model                                                     *)

\* largest price / quantity drawn for an input
MaxPrice == 2
\* largest number of pairs in a raw ticker set
MaxTickers == 3
\* number of events the scheduler runs before the model stops it
MaxEvents == 4
\* longest time get_report takes, in ticks
MaxLatency == 1
\* resolution of the clock: ticks per second
TicksPerSecond == 2
\* longest snapshot history a chart is drawn from
MaxReports == 2
\* the time, in seconds, at which a chart is requested
GraphNow == 172800

-----------------------------------------------------------------------------
(* Generic helpers                                                         *)

Range(f) == {f[x] : x \in DOMAIN f}

\* all orderings (sequences without repetition) of the finite set S
Orderings(S) ==
    {s \in [1..Cardinality(S) -> S] : \A i, j \in 1..Cardinality(S) : s[i] = s[j] => i = j}

\* the dict d with d[k] = v assigned (python: d[k] = v)
DictSet(d, k, v) == [x \in DOMAIN d \cup {k} |-> IF x = k THEN v ELSE d[x]]

\* the dict d1 updated with every entry of d2
DictUpdate(d1, d2) == [x \in DOMAIN d1 \cup DOMAIN d2 |-> IF x \in DOMAIN d2 THEN d2[x] ELSE d1[x]]

EmptyDict == [x \in {} |-> 0]

-----------------------------------------------------------------------------
(* report.py: build_ticker                                                 *)

backup_coins == <<"BTC", "ETH", "BNB">>

stable_coins == <<"USD", "USDT", "BUSD", "USDC", "DAI">>

\* tickers = {"USDT": 1, "USD": 1}
SeedTickers == [s \in {"USDT", "USD"} |-> 1]

\* FirstMatch without the break: the last matching quote wins
LastMatch(symbol, quotes, raw) ==
    IF \E i \in 1..Len(quotes) : (symbol \o quotes[i]) \in DOMAIN raw
    THEN CHOOSE i \in 1..Len(quotes) :
            /\ (symbol \o quotes[i]) \in DOMAIN raw
            /\ \A j \in (i + 1)..Len(quotes) : (symbol \o quotes[j]) \notin DOMAIN raw
    ELSE 0

\* the inner for/break loops: index of the first quote q of `quotes` with
\* symbol + q in tickers_raw, 0 when there is none (success stays False)
FirstMatch(symbol, quotes, raw) ==
    IF \E i \in 1..Len(quotes) : (symbol \o quotes[i]) \in DOMAIN raw
    THEN CHOOSE i \in 1..Len(quotes) :
            /\ (symbol \o quotes[i]) \in DOMAIN raw
            /\ \A j \in 1..(i - 1) : (symbol \o quotes[j]) \notin DOMAIN raw
    ELSE 0

\* the symbols the first loop iterates over: set(backup_coins + all_symbols)
LoopSymbols(all_symbols) == Range(backup_coins) \cup all_symbols

\* the symbols appended to failed_coins by the first loop
FailedSet(all_symbols, raw) ==
    {s \in LoopSymbols(all_symbols) : FirstMatch(s, stable_coins, raw) = 0}

\* tickers after the first loop (lines 24-33): each symbol with a stable pair
\* is assigned that pair's raw price; the keys are distinct, so the iteration
\* order of the set does not show in the result
FirstPass(all_symbols, raw) ==
    DictUpdate(SeedTickers,
        [s \in LoopSymbols(all_symbols) \ FailedSet(all_symbols, raw) |->
            raw[s \o stable_coins[FirstMatch(s, stable_coins, raw)]]])

\* the value assigned on line 40
ChainedPrice(rawPrice, backupPrice) == rawPrice * backupPrice

\* the second loop (lines 35-44) over failed_coins, in its list order.
\* tickers[b_coin] raises KeyError when b_coin has no price yet.
RECURSIVE SecondPass(_, _, _)
SecondPass(failed_coins, tickers, raw) ==
    IF failed_coins = <<>> THEN [status |-> "ok", tickers |-> tickers]
    ELSE LET symbol == Head(failed_coins)
             b == FirstMatch(symbol, backup_coins, raw)
         IN  IF b = 0
             THEN SecondPass(Tail(failed_coins), tickers, raw)
             ELSE IF backup_coins[b] \notin DOMAIN tickers
             THEN [status |-> "KeyError", tickers |-> tickers]
             ELSE SecondPass(Tail(failed_coins),
                     DictSet(tickers, symbol,
                         ChainedPrice(raw[symbol \o backup_coins[b]], tickers[backup_coins[b]])),
                     raw)

\* build_ticker(all_symbols, tickers_raw) when the first loop appends the
\* failed symbols in the order failed_order
build_ticker(all_symbols, raw, failed_order) ==
    SecondPass(failed_order, FirstPass(all_symbols, raw), raw)

\* some enumeration of the finite set S as a sequence
RECURSIVE SetToSeq(_)
SetToSeq(S) ==
    IF S = {} THEN <<>>
    ELSE LET x == CHOOSE y \in S : TRUE IN <<x>> \o SetToSeq(S \ {x})

\* the failed symbols for which line 40 is executed: those with a backup pair
ChainedSet(all_symbols, raw) ==
    {s \in FailedSet(all_symbols, raw) : FirstMatch(s, backup_coins, raw) # 0}

\* The first loop iterates over a python set, whose iteration order is
\* unspecified (string hashes are randomised per process): failed_coins can
\* be any ordering of the symbols that failed. A failed symbol without a
\* backup pair only reaches the debug log on line 44, wherever it stands in
\* failed_coins, so the orderings enumerated are those of the failed symbols
\* that have a backup pair, with the other failed symbols put behind them.
FailedOrders(all_symbols, raw) ==
    {chained \o SetToSeq(FailedSet(all_symbols, raw) \ ChainedSet(all_symbols, raw)) :
        chained \in Orderings(ChainedSet(all_symbols, raw))}

-----------------------------------------------------------------------------
(* Inputs of build_ticker                                                  *)

\* symbols that may be asked for besides the backup coins (settings.COIN_LIST
\* and the assets the account holds)
RequestableSymbols == {"USDT", "XRP"}

\* trading pairs the exchange may list
ListedPairs ==
    {"XRPUSDT", "XRPBUSD", "XRPBTC", "XRPETH",
     "BTCUSDT", "ETHUSDT", "BNBUSDT", "ETHBTC", "BTCBNB", "USDTDAI"}

Prices == 1..MaxPrice

RawTickerSets ==
    UNION {[P -> Prices] : P \in {Q \in SUBSET ListedPairs : Cardinality(Q) <= MaxTickers}}

-----------------------------------------------------------------------------
(* report.py: get_report                                                   *)

\* asset names known to the exchange
AssetNames == {"BTC", "ETH", "BNB", "XRP", "USDT", "EUR", "GBP"}

\* symbol.startswith("LD")
StartsWithLD(symbol) == \E x \in AssetNames : symbol = "LD" \o x

\* qty = float(balance["free"]) + float(balance["locked"])
Qty(balance) == balance.free + balance.locked

\* the loop over account["balances"] (lines 55-68): account_symbols and balances
RECURSIVE ReadBalances(_, _, _)
ReadBalances(rows, account_symbols, balances) ==
    IF rows = <<>> THEN [account_symbols |-> account_symbols, balances |-> balances]
    ELSE LET balance == Head(rows)
         IN  IF StartsWithLD(balance.asset)
             THEN ReadBalances(Tail(rows), account_symbols, balances)
             ELSE IF Qty(balance) # 0
             THEN ReadBalances(Tail(rows), Append(account_symbols, balance.asset),
                               DictSet(balances, balance.asset, Qty(balance)))
             ELSE ReadBalances(Tail(rows), account_symbols, balances)

\* all_symbols (lines 70-72), as the set build_ticker makes of it
AllSymbols(coin_list, account_symbols, currency) ==
    Range(coin_list) \cup Range(account_symbols)
        \cup (IF currency = "EUR" THEN {"EUR"} ELSE {})

\* 1 / rates[CURRENCY]; the rates drawn are unit fractions num/den with num = 1
Reciprocal(rate) == rate.den \div rate.num

\* lines 75-83: the price of a home currency other than USD and EUR
WithCurrencyTicker(tickers, currency, rate) ==
    IF currency \notin {"USD", "EUR"}
    THEN DictSet(tickers, currency, Reciprocal(rate))
    ELSE tickers

\* the valuation loop without the `continue` on line 91
RECURSIVE TotalNoSkip(_, _, _, _)
TotalNoSkip(account_symbols, balances, tickers, total_usdt) ==
    IF account_symbols = <<>> THEN total_usdt
    ELSE LET symbol == Head(account_symbols)
         IN  TotalNoSkip(Tail(account_symbols), balances, tickers,
                 total_usdt + balances[symbol] * (IF symbol \in DOMAIN tickers THEN tickers[symbol] ELSE 1))

\* the valuation loop (lines 87-92)
RECURSIVE TotalUsdt(_, _, _, _)
TotalUsdt(account_symbols, balances, tickers, total_usdt) ==
    IF account_symbols = <<>> THEN total_usdt
    ELSE LET symbol == Head(account_symbols)
         IN  IF symbol \notin DOMAIN tickers
             THEN TotalUsdt(Tail(account_symbols), balances, tickers, total_usdt)
             ELSE TotalUsdt(Tail(account_symbols), balances, tickers,
                            total_usdt + balances[symbol] * tickers[symbol])

NoReport == [total_usdt |-> 0, balances |-> EmptyDict, tickers |-> EmptyDict]

\* the symbols get_report hands to build_ticker
ReportSymbols(env, conf) ==
    AllSymbols(conf.COIN_LIST, ReadBalances(env.account, <<>>, EmptyDict).account_symbols,
               conf.CURRENCY)

\* get_report() when the external services answer env, under the settings
\* conf, with build_ticker's failed_coins in the order failed_order.
\* env.fault names the external call that raises, if any.
get_report(env, conf, failed_order) ==
    LET read == ReadBalances(env.account, <<>>, EmptyDict)
        bt == build_ticker(ReportSymbols(env, conf), env.tickers_raw, failed_order)
        tickers == WithCurrencyTicker(bt.tickers, conf.CURRENCY, env.rate)
    IN  IF env.fault \in {"get_account", "get_symbol_ticker"}
        THEN [status |-> "raised", report |-> NoReport]
        ELSE IF bt.status # "ok"
        THEN [status |-> bt.status, report |-> NoReport]
        ELSE IF env.fault = "openexchangerates" /\ conf.CURRENCY \notin {"USD", "EUR"}
        THEN [status |-> "raised", report |-> NoReport]
        ELSE [status |-> "ok",
              report |-> [total_usdt |-> TotalUsdt(read.account_symbols, read.balances, tickers, 0),
                          balances |-> read.balances,
                          tickers |-> tickers]]

-----------------------------------------------------------------------------
(* Inputs of get_report                                                    *)

\* the assets of the account, in the order the exchange lists them
AccountAssets == <<"XRP", "USDT", "LDXRP">>

\* free and locked amounts of one asset
BalanceRows == {<<0, 0>>, <<1, 0>>, <<0, 2>>, <<1, 2>>}

Accounts ==
    {[i \in 1..Len(AccountAssets) |->
        [asset |-> AccountAssets[i], free |-> f[i][1], locked |-> f[i][2]]] :
     f \in [1..Len(AccountAssets) -> BalanceRows]}

\* the pairs listed when get_report is exercised
ReportPairs == {"XRPUSDT", "XRPBTC", "BTCUSDT"}

ReportTickerSets == UNION {[P -> Prices] : P \in SUBSET ReportPairs}

\* openexchangerates' rate of the home currency: 1/den units per USD
Rates == {[num |-> 1, den |-> d] : d \in Prices}

Faults == {"none", "get_account", "get_symbol_ticker", "openexchangerates"}

Currencies == {"USD", "EUR", "GBP"}

DefaultSettings ==
    [COIN_LIST |-> <<"BTC", "XRP">>, CURRENCY |-> "USD",
     TG_UPDATE_BROADCASTED_BEFORE |-> FALSE, BTB_UPDATE_BROADCASTED_BEFORE |-> FALSE]

-----------------------------------------------------------------------------
(* report.py: get_previous_reports, save_report                            *)

\* np.save("data/crypto.npy", old_reports): the list becomes a 0-indexed array
NpSave(reports) ==
    [exists |-> TRUE, array |-> [i \in 0..(Len(reports) - 1) |-> reports[i + 1]]]

\* np.load(...).tolist()
ToList(array) == [i \in 1..Cardinality(DOMAIN array) |-> array[i - 1]]

\* get_previous_reports(): [] when the file does not exist
get_previous_reports(file) == IF file.exists THEN ToList(file.array) ELSE <<>>

\* int(time.time())
IntTime(c) == c \div TicksPerSecond

\* report["time"] = ...: the report with the key "time" added
Stamp(report, t) ==
    [time |-> t, total_usdt |-> report.total_usdt,
     balances |-> report.balances, tickers |-> report.tickers]

\* save_report that puts the new report first
SaveReportPrepend(report, old_reports, c) == <<Stamp(report, IntTime(c))>> \o old_reports

\* save_report(report, old_reports) called at time c: the list it saves and returns
save_report(report, old_reports, c) == Append(old_reports, Stamp(report, IntTime(c)))

NoFile == [exists |-> FALSE, array |-> <<>>]

-----------------------------------------------------------------------------
(* The scheduler (sched-style: enter(delay, priority, action, argument))   *)

\* scheduler.enter(3600, 2, make_snapshot): report.py line 123
SnapshotDelay == 3600
\* scheduler.enter(60 * 60, 1, update_checker): utils.py line 246
CheckerDelay == 3600
\* scheduler.enter(60 * 60 * 12, 1, update_reminder, ...): utils.py lines 212, 234, 257
ReminderDelay == 43200

Event(t, priority, action, args) ==
    [time |-> t, priority |-> priority, action |-> action, args |-> args]

\* scheduler.enter(delay, priority, action, args) called at time c
Enter(queue, c, delay, priority, action, args) ==
    queue \cup {Event(c + delay * TicksPerSecond, priority, action, args)}

\* the events the scheduler may run next: earliest time, then lowest priority number
NextEvents ==
    {ev \in scheduler :
        \A other \in scheduler :
            \/ ev.time < other.time
            \/ ev.time = other.time /\ ev.priority <= other.priority}

\* the scheduler sleeps until the event is due
StartTime(ev) == IF clock < ev.time THEN ev.time ELSE clock

-----------------------------------------------------------------------------
(* report.py: make_snapshot                                                *)

\* what the external services may answer at a snapshot tick
SnapshotEnvs ==
    {[account |-> a, tickers_raw |-> raw, rate |-> [num |-> 1, den |-> 1], fault |-> f] :
        a \in {x \in Accounts : x[1].free = 1 /\ x[1].locked = 0 /\ Qty(x[2]) = 0 /\ Qty(x[3]) = 0},
        raw \in {r \in ReportTickerSets : DOMAIN r \in {{"XRPUSDT"}, {"XRPBTC"}}},
        f \in {"none", "get_symbol_ticker"}}

\* the scheduler runs the event ev = make_snapshot. When get_report raises,
\* the exception leaves make_snapshot before save_report and before the
\* scheduler.enter on line 123.
MakeSnapshot(ev) ==
    /\ ev.action = "make_snapshot"
    /\ \E env \in SnapshotEnvs, latency \in 0..MaxLatency :
         \E failed_order \in FailedOrders(ReportSymbols(env, settings), env.tickers_raw) :
            LET result == get_report(env, settings, failed_order)
                now == StartTime(ev) + latency
            IN  /\ clock' = now
                /\ IF result.status = "ok"
                   THEN /\ crypto_report' = result.report
                        /\ store' = NpSave(save_report(result.report, get_previous_reports(store), now))
                        /\ scheduler' = Enter(scheduler \ {ev}, now, SnapshotDelay, 2, "make_snapshot", <<>>)
                        /\ last_run' = [action |-> "make_snapshot", outcome |-> "ok"]
                   ELSE /\ scheduler' = scheduler \ {ev}
                        /\ last_run' = [action |-> "make_snapshot", outcome |-> result.status]
                        /\ UNCHANGED <<store, crypto_report>>
    /\ UNCHANGED <<settings, sent>>

-----------------------------------------------------------------------------
(* utils.py: update_checker, update_reminder                               *)

\* is_tg_bot_update_available / is_btb_bot_update_available return True,
\* False or (on an exception) None
ProbeAnswers == {"True", "False", "None"}

Truthy(answer) == answer = "True"

\* bot.close() on line 231: utils.py defines no name `bot` (it imports the
\* class Bot only), so evaluating it raises NameError
BotClose == "NameError"

\* the state an update_checker run threads through its statements
Running(conf, msgs, queue, c) ==
    [settings |-> conf, sent |-> msgs, scheduler |-> queue, clock |-> c, outcome |-> "running"]

\* lines 199-216
TgStage(st, probe, send_ok) ==
    IF st.settings.TG_UPDATE_BROADCASTED_BEFORE = FALSE /\ Truthy(probe)
    THEN LET flagged == [st EXCEPT !.settings.TG_UPDATE_BROADCASTED_BEFORE = TRUE]
         IN  IF ~send_ok
             THEN [flagged EXCEPT !.outcome = "TelegramError"]
             ELSE [flagged EXCEPT
                     !.sent.tg = @ + 1,
                     !.scheduler = Enter(@, st.clock, ReminderDelay, 1, "update_reminder", <<"tg">>)]
    ELSE st

\* lines 218-238
BtbStage(st, probe, send_ok) ==
    IF st.outcome # "running" THEN st
    ELSE IF st.settings.BTB_UPDATE_BROADCASTED_BEFORE = FALSE /\ Truthy(probe)
    THEN LET flagged == [st EXCEPT !.settings.BTB_UPDATE_BROADCASTED_BEFORE = TRUE]
         IN  IF ~send_ok
             THEN [flagged EXCEPT !.outcome = "TelegramError"]
             ELSE LET told == [flagged EXCEPT !.sent.btb = @ + 1,
                                              !.clock = @ + TicksPerSecond]
                  IN  IF BotClose # "ok"
                      THEN [told EXCEPT !.outcome = BotClose]
                      ELSE [told EXCEPT
                              !.clock = @ + TicksPerSecond,
                              !.scheduler = Enter(@, told.clock + TicksPerSecond, ReminderDelay, 1,
                                                  "update_reminder", <<"btb">>)]
    ELSE st

\* lines 240-249
RescheduleStage(st) ==
    IF st.outcome # "running" THEN st
    ELSE IF \/ st.settings.TG_UPDATE_BROADCASTED_BEFORE = FALSE
            \/ st.settings.BTB_UPDATE_BROADCASTED_BEFORE = FALSE
    THEN [st EXCEPT
            !.clock = @ + TicksPerSecond,
            !.scheduler = Enter(@, st.clock + TicksPerSecond, CheckerDelay, 1, "update_checker", <<>>),
            !.outcome = "ok"]
    ELSE [st EXCEPT !.outcome = "ok"]

\* the scheduler runs the event ev = update_checker
UpdateChecker(ev) ==
    /\ ev.action = "update_checker"
    /\ \E tg_probe \in ProbeAnswers, btb_probe \in ProbeAnswers,
          tg_send_ok \in BOOLEAN, btb_send_ok \in BOOLEAN :
         LET st == RescheduleStage(
                     BtbStage(
                       TgStage(Running(settings, sent, scheduler \ {ev}, StartTime(ev)),
                               tg_probe, tg_send_ok),
                       btb_probe, btb_send_ok))
         IN  /\ settings' = st.settings
             /\ sent' = st.sent
             /\ scheduler' = st.scheduler
             /\ clock' = st.clock
             /\ last_run' = [action |-> "update_checker", outcome |-> st.outcome]
    /\ UNCHANGED <<store, crypto_report>>

\* the scheduler runs the event ev = update_reminder. The function is
\* declared update_reminder(self, message) and is entered with one argument
\* (lines 214-215, 236-237) or none (lines 256-260): the call raises TypeError.
UpdateReminder(ev) ==
    /\ ev.action = "update_reminder"
    /\ clock' = StartTime(ev)
    /\ IF Len(ev.args) = 2
       THEN /\ sent' = [sent EXCEPT !.reminder = @ + 1]
            /\ scheduler' = Enter(scheduler \ {ev}, StartTime(ev), ReminderDelay, 1, "update_reminder", <<>>)
            /\ last_run' = [action |-> "update_reminder", outcome |-> "ok"]
       ELSE /\ scheduler' = scheduler \ {ev}
            /\ last_run' = [action |-> "update_reminder", outcome |-> "TypeError"]
            /\ UNCHANGED sent
    /\ UNCHANGED <<settings, store, crypto_report>>

-----------------------------------------------------------------------------
(* report.py: graph_report, get_graph                                      *)

\* 24 * 60 * 60 on line 164
DaySeconds == 86400

\* min_timestamp (lines 162-164), in ticks
MinTimestamp(days, c) == IF days # 0 THEN c - days * DaySeconds * TicksPerSecond ELSE 0

\* report["time"] < min_timestamp
TooOld(report, days, c) == report.time * TicksPerSecond < MinTimestamp(days, c)

\* a / b as the program computes it: the exact quotient, kept as a fraction;
\* den = 0 stands for the division by zero
Fraction(a, b) == [num |-> a, den |-> b]

Skip == [plotted |-> FALSE, x |-> 0, y |-> Fraction(0, 1)]

Plot(x, y) == [plotted |-> TRUE, x |-> x, y |-> y]

\* the test on line 177 left out
NeverInvalid(ticker) == FALSE

\* ticker == 0 (line 177)
InvalidTicker(ticker) == ticker = 0

\* the body of the loop over reports (lines 170-199) for one report and one
\* symbol: the point appended to X, Y, or Skip on a `continue`
PointOf(report, symbol, days, graph_type, ref_currency, c) ==
    IF TooOld(report, days, c) THEN Skip
    ELSE IF symbol \notin DOMAIN report.tickers THEN Skip
    ELSE IF InvalidTicker(report.tickers[symbol]) THEN Skip
    ELSE IF graph_type = "amount"
    THEN Plot(report.time, Fraction(report.total_usdt, report.tickers[symbol]))
    ELSE IF graph_type = "price"
    THEN IF ref_currency \in {"USD", "USDT"}
         THEN Plot(report.time, Fraction(report.tickers[symbol], 1))
         ELSE IF ref_currency \notin DOMAIN report.tickers THEN Skip
         ELSE IF report.tickers[ref_currency] = 0 THEN Skip
         ELSE Plot(report.time, Fraction(report.tickers[symbol], report.tickers[ref_currency]))
    ELSE Skip

\* the lists X, Y of one symbol, as a sequence of points [x, y]
RECURSIVE Series(_, _, _, _, _, _)
Series(reports, symbol, days, graph_type, ref_currency, c) ==
    IF reports = <<>> THEN <<>>
    ELSE LET p == PointOf(Head(reports), symbol, days, graph_type, ref_currency, c)
             rest == Series(Tail(reports), symbol, days, graph_type, ref_currency, c)
         IN  IF p.plotted THEN <<[x |-> p.x, y |-> p.y]>> \o rest ELSE rest

\* (y / y0 - 1) * 100 as a fraction; numpy only warns on a division by zero
\* and yields a non-finite value (den = 0)
RelativeValue(y, y0) ==
    Fraction(100 * (y.num * y0.den - y.den * y0.num), y.den * y0.num)

\* lines 201-203: Y = (Y / Y[0] - 1) * 100
RelativeSeries(series) ==
    [i \in 1..Len(series) |-> [x |-> series[i].x, y |-> RelativeValue(series[i].y, series[1].y)]]

\* the loop over symbols (lines 167-204), from the running state acc.
\* Building a point with a zero divisor raises ZeroDivisionError; Y[0] on an
\* empty array raises IndexError.
RECURSIVE PlotSymbols(_, _, _, _, _, _, _, _)
PlotSymbols(symbols, reports, relative, days, graph_type, ref_currency, c, acc) ==
    IF symbols = <<>> THEN acc
    ELSE LET symbol == Head(symbols)
             series == Series(reports, symbol, days, graph_type, ref_currency, c)
             counted == [acc EXCEPT !.nb_plot = @ + Len(series), !.last_symbol = symbol]
         IN  IF \E i \in 1..Len(series) : series[i].y.den = 0
             THEN [acc EXCEPT !.status = "ZeroDivisionError"]
             ELSE IF relative /\ series = <<>>
             THEN [counted EXCEPT !.status = "IndexError"]
             ELSE PlotSymbols(Tail(symbols), reports, relative, days, graph_type, ref_currency, c,
                     [counted EXCEPT !.lines = Append(@,
                         IF relative THEN RelativeSeries(series) ELSE series)])

\* f"data/quantity_{symbol}.png" (line 222)
Figname(symbol) == "data/quantity_" \o symbol \o ".png"

\* graph_report(reports, symbols, relative, days, graph_type, ref_currency)
\* called at time c: [status, figname, nb_plot, lines]
graph_report(reports, symbols, relative, days, graph_type, ref_currency, c) ==
    LET done == PlotSymbols(symbols, reports, relative, days, graph_type, ref_currency, c,
                    [status |-> "ok", nb_plot |-> 0, lines |-> <<>>, last_symbol |-> "None"])
    IN  IF done.status # "ok"
        THEN [status |-> done.status, figname |-> "None", nb_plot |-> done.nb_plot, lines |-> done.lines]
        ELSE IF symbols = <<>>
        THEN [status |-> "UnboundLocalError", figname |-> "None", nb_plot |-> 0, lines |-> <<>>]
        ELSE [status |-> "ok", figname |-> Figname(done.last_symbol),
              nb_plot |-> done.nb_plot, lines |-> done.lines]

\* get_graph(relative, symbol, days, graph_type, ref_currency) called at time
\* c; request.symbol is the argument symbol as the list symbol.split(",")
get_graph(request, conf, file, c) ==
    LET wildcard == request.symbol = <<"*">>
        symbols == IF wildcard THEN conf.COIN_LIST ELSE request.symbol
        relative == IF Len(symbols) > 1 THEN TRUE ELSE request.relative
        reports == get_previous_reports(file)
        g == graph_report(reports, symbols, relative, request.days, request.graph_type,
                          request.ref_currency, c)
    IN  IF ~wildcard /\ \E i \in 1..Len(symbols) :
                            symbols[i] \notin Range(conf.COIN_LIST) \cup {conf.CURRENCY}
        THEN [status |-> "AssertionError", figname |-> "None", nb_plot |-> 0,
              lines |-> <<>>, warned |-> FALSE]
        ELSE IF Len(reports) = 0
        THEN [status |-> "ok", figname |-> "None", nb_plot |-> 0, lines |-> <<>>, warned |-> TRUE]
        ELSE [status |-> g.status, figname |-> g.figname, nb_plot |-> g.nb_plot,
              lines |-> g.lines, warned |-> (g.status = "ok" /\ g.nb_plot <= 1)]

-----------------------------------------------------------------------------
(* Inputs of get_graph                                                     *)

\* prices a stored snapshot may hold for a symbol: 0 (invalid) or a valid one
StoredPrices == {0, 2}

StoredTickers == UNION {[P -> StoredPrices] : P \in SUBSET {"BTC", "EUR"}}

\* snapshot times: one second before the one-day window of the request, and
\* exactly at its edge
StoredTimes == {GraphNow - DaySeconds - 1, GraphNow - DaySeconds}

StoredReports ==
    {[time |-> t, total_usdt |-> 3, balances |-> EmptyDict, tickers |-> tk] :
        t \in StoredTimes, tk \in StoredTickers}

\* the files get_graph may find: none, or a history of up to MaxReports snapshots
StoredFiles ==
    {NoFile} \cup {NpSave(h) : h \in UNION {[1..n -> StoredReports] : n \in 0..MaxReports}}

GraphRequests ==
    [relative : BOOLEAN,
     symbol : {<<"*">>, <<"BTC">>, <<"BTC", "EUR">>, <<"DOGE">>},
     days : {0, 1},
     graph_type : {"amount", "price"},
     ref_currency : {"USD", "EUR"}]

GraphSettings == [DefaultSettings EXCEPT !.CURRENCY = "EUR"]

-----------------------------------------------------------------------------
(* Initial states                                                          *)

NoResult == [status |-> "none", tickers |-> EmptyDict]

NoReportResult == [status |-> "none", report |-> NoReport]

IdleEnv ==
    [account |-> <<>>, tickers_raw |-> EmptyDict, rate |-> [num |-> 1, den |-> 1], fault |-> "none"]

\* no call of build_ticker is under way
TickerIdle ==
    /\ bt_all_symbols = {}
    /\ bt_tickers_raw = EmptyDict
    /\ bt_result = NoResult

\* no call of get_report is under way
ReportIdle ==
    /\ gr_env = IdleEnv
    /\ gr_result = NoReportResult

\* the program at its start: no snapshot file, nothing broadcast, and one
\* update_checker and one make_snapshot event entered in the scheduler
SchedulerInit ==
    /\ store = NoFile
    /\ clock = 0
    /\ scheduler = {Event(0, 1, "update_checker", <<>>), Event(0, 2, "make_snapshot", <<>>)}
    /\ crypto_report = NoReport
    /\ last_run = [action |-> "none", outcome |-> "none"]
    /\ sent = [tg |-> 0, btb |-> 0, reminder |-> 0]
    /\ events_run = 0

NoGraph == [status |-> "none", figname |-> "None", nb_plot |-> 0, lines |-> <<>>, warned |-> FALSE]

\* no call of get_graph is under way
GraphIdle ==
    /\ gg_request = [relative |-> FALSE, symbol |-> <<"*">>, days |-> 0,
                     graph_type |-> "amount", ref_currency |-> "USD"]
    /\ gg_result = NoGraph

\* the snapshot file, the time and the arguments of a get_graph call are drawn
GraphInit ==
    /\ settings = GraphSettings
    /\ store \in StoredFiles
    /\ clock = GraphNow * TicksPerSecond
    /\ scheduler = {}
    /\ crypto_report = NoReport
    /\ last_run = [action |-> "none", outcome |-> "none"]
    /\ sent = [tg |-> 0, btb |-> 0, reminder |-> 0]
    /\ events_run = 0
    /\ gg_request \in GraphRequests
    /\ gg_result = NoGraph

\* the arguments of a build_ticker call are drawn; the call has not been made
TickerInit ==
    /\ bt_all_symbols \in SUBSET RequestableSymbols
    /\ bt_tickers_raw \in RawTickerSets
    /\ bt_result = NoResult

\* the answers of the external services to a get_report call are drawn
ReportInit ==
    /\ settings \in {[DefaultSettings EXCEPT !.CURRENCY = c] : c \in Currencies}
    /\ gr_env \in {[account |-> a, tickers_raw |-> raw, rate |-> r, fault |-> "none"] :
                     a \in Accounts, raw \in ReportTickerSets,
                     r \in IF settings.CURRENCY = "GBP" THEN Rates ELSE {[num |-> 1, den |-> 1]}}
    /\ gr_result = NoReportResult

-----------------------------------------------------------------------------
(* Actions of the pure functions                                           *)

\* one call build_ticker(all_symbols, tickers_raw)
BuildTickerCall ==
    /\ \E failed_order \in FailedOrders(bt_all_symbols, bt_tickers_raw) :
          bt_result' = build_ticker(bt_all_symbols, bt_tickers_raw, failed_order)
    /\ UNCHANGED <<bt_all_symbols, bt_tickers_raw, settings, report_vars, sched_vars, graph_vars>>

\* one call of get_report(); any one of its external calls may raise
GetReportCall ==
    /\ \E fault \in Faults :
         \E failed_order \in FailedOrders(ReportSymbols(gr_env, settings), gr_env.tickers_raw) :
            gr_result' = get_report([gr_env EXCEPT !.fault = fault], settings, failed_order)
    /\ UNCHANGED <<gr_env, settings, ticker_vars, sched_vars, graph_vars>>

\* one call of get_graph
GetGraphCall ==
    /\ gg_result' = get_graph(gg_request, settings, store, clock)
    /\ UNCHANGED <<gg_request, settings, ticker_vars, report_vars, sched_vars>>

-----------------------------------------------------------------------------
(* Actions of the scheduler                                                *)

\* the scheduler pops the next event and runs its action; an exception of the
\* action leaves the other events in the queue
Dispatch ==
    /\ events_run < MaxEvents
    /\ events_run' = events_run + 1
    /\ UNCHANGED <<ticker_vars, report_vars, graph_vars>>

RunMakeSnapshot == Dispatch /\ \E ev \in NextEvents : MakeSnapshot(ev)

RunUpdateChecker == Dispatch /\ \E ev \in NextEvents : UpdateChecker(ev)

RunUpdateReminder == Dispatch /\ \E ev \in NextEvents : UpdateReminder(ev)

-----------------------------------------------------------------------------
(* Specifications                                                          *)

\* the scheduled program: snapshots and update checks
Init == settings = DefaultSettings /\ TickerIdle /\ ReportIdle /\ GraphIdle /\ SchedulerInit

Next == RunMakeSnapshot \/ RunUpdateChecker \/ RunUpdateReminder

Spec == Init /\ [][Next]_vars

\* the price normalizer, on every drawn input
InitTicker == settings = DefaultSettings /\ TickerInit /\ ReportIdle /\ GraphIdle /\ SchedulerInit

SpecTicker == InitTicker /\ [][BuildTickerCall]_vars

\* the valuation engine, on every drawn input
InitReport == ReportInit /\ TickerIdle /\ GraphIdle /\ SchedulerInit

SpecReport == InitReport /\ [][GetReportCall]_vars

\* the chart renderer, on every drawn history and request
InitGraph == GraphInit /\ TickerIdle /\ ReportIdle

SpecGraph == InitGraph /\ [][GetGraphCall]_vars

-----------------------------------------------------------------------------
(* Claims about build_ticker                                               *)

\* S + Q is the first pair of S in tickers_raw against the quotes, in their order
IsFirstPair(S, quotes, i) ==
    /\ (S \o quotes[i]) \in DOMAIN bt_tickers_raw
    /\ \A j \in 1..(i - 1) : (S \o quotes[j]) \notin DOMAIN bt_tickers_raw

HasPair(S, quotes) == \E i \in 1..Len(quotes) : (S \o quotes[i]) \in DOMAIN bt_tickers_raw

BtSymbols == {"BTC", "ETH", "BNB"} \cup bt_all_symbols

\* C3: in the mapping build_ticker returns, every symbol S (requested or a
\* backup coin) that has a raw pair against a stable coin is priced at exactly
\* the raw price of S + Q for the first such Q in the order USD, USDT, BUSD,
\* USDC, DAI, whatever other stable or backup pairs S has.
C3_FirstStablePairWins ==
    bt_result.status = "ok" =>
        \A S \in BtSymbols : \A i \in 1..5 :
            IsFirstPair(S, <<"USD", "USDT", "BUSD", "USDC", "DAI">>, i) =>
                /\ S \in DOMAIN bt_result.tickers
                /\ bt_result.tickers[S] =
                       bt_tickers_raw[S \o <<"USD", "USDT", "BUSD", "USDC", "DAI">>[i]]

\* a returned call in which XRP has two stable pairs with different prices
\* and a backup pair as well
C3_Witness ==
    /\ bt_result.status = "ok"
    /\ "XRP" \in bt_all_symbols
    /\ {"XRPUSDT", "XRPBUSD", "XRPBTC"} \subseteq DOMAIN bt_tickers_raw
    /\ bt_tickers_raw["XRPUSDT"] # bt_tickers_raw["XRPBUSD"]

\* B can be priced: it has a stable pair, or its first backup pair is against
\* a coin that has a stable pair
Priceable(B) ==
    \/ HasPair(B, stable_coins)
    \/ \E k \in 1..3 : /\ IsFirstPair(B, backup_coins, k)
                       /\ HasPair(backup_coins[k], stable_coins)

\* C4: after build_ticker has run, every symbol S without a stable pair whose
\* first backup pair (order BTC, ETH, BNB) is S + B is priced at
\* raw_price(S + B) * price(B), with price(B) the price of B in the same
\* output, whatever the order in which the symbols were processed. Stated for
\* the inputs in which every such B can itself be priced.
C4_ChainedPriceAnyOrder ==
    ( /\ bt_result.status # "none"
      /\ \A S \in BtSymbols : \A k \in 1..3 :
            (~HasPair(S, stable_coins) /\ IsFirstPair(S, backup_coins, k))
                => Priceable(backup_coins[k]) )
    => /\ bt_result.status = "ok"
       /\ \A S \in BtSymbols : \A k \in 1..3 :
            (~HasPair(S, stable_coins) /\ IsFirstPair(S, backup_coins, k)) =>
                /\ {S, backup_coins[k]} \subseteq DOMAIN bt_result.tickers
                /\ bt_result.tickers[S] =
                       bt_tickers_raw[S \o backup_coins[k]] * bt_result.tickers[backup_coins[k]]

\* C5: build_ticker always returns a mapping (it never raises), and a symbol
\* that neither pass can price is not a key of that mapping.
C5_ReturnsAndDropsUnpriced ==
    bt_result.status # "none" =>
        /\ bt_result.status = "ok"
        /\ \A S \in BtSymbols \ {"USD", "USDT"} :
              (~HasPair(S, stable_coins) /\ ~HasPair(S, backup_coins))
                  => S \notin DOMAIN bt_result.tickers

\* C6: in every mapping build_ticker returns, USD and USDT are present with
\* price exactly 1.
C6_NumerairesAreOne ==
    bt_result.status = "ok" =>
        /\ {"USD", "USDT"} \subseteq DOMAIN bt_result.tickers
        /\ bt_result.tickers["USD"] = 1
        /\ bt_result.tickers["USDT"] = 1

-----------------------------------------------------------------------------
(* Claims about get_report                                                 *)

\* the sum of balances[s] * tickers[s] over the symbols of the set S
RECURSIVE SumOver(_, _, _)
SumOver(S, balances, tickers) ==
    IF S = {} THEN 0
    ELSE LET s == CHOOSE x \in S : TRUE
         IN  balances[s] * tickers[s] + SumOver(S \ {s}, balances, tickers)

\* C7: the total_usdt of the report get_report produces is the sum of
\* balance[s] * price[s] over exactly the symbols present in both the
\* report's balances and its prices (a held symbol without a price adds 0, a
\* priced symbol that is not held adds nothing), and the report carries the
\* balances, the prices and the total, and no timestamp.
C7_TotalIsSumOverIntersection ==
    gr_result.status = "ok" =>
        /\ gr_result.report.total_usdt =
              SumOver(DOMAIN gr_result.report.balances \cap DOMAIN gr_result.report.tickers,
                      gr_result.report.balances, gr_result.report.tickers)
        /\ DOMAIN gr_result.report = {"total_usdt", "balances", "tickers"}

\* a report with two held and priced symbols, and with a price for a symbol
\* that is not held
C7_Witness ==
    /\ gr_result.status = "ok"
    /\ {"XRP", "USDT"} \subseteq DOMAIN gr_result.report.balances \cap DOMAIN gr_result.report.tickers
    /\ "BTC" \in DOMAIN gr_result.report.tickers \ DOMAIN gr_result.report.balances
    /\ gr_result.report.tickers["XRP"] > 1
    /\ gr_result.report.total_usdt > 0

\* a report in which a held symbol has no price
C7_WitnessUnpriced ==
    /\ gr_result.status = "ok"
    /\ "XRP" \in DOMAIN gr_result.report.balances \ DOMAIN gr_result.report.tickers
    /\ "USDT" \in DOMAIN gr_result.report.balances

-----------------------------------------------------------------------------
(* Claims about the snapshot store and the scheduled snapshot              *)

\* C1: when make_snapshot has saved a report, the history read back from the
\* file is the history read before, unchanged and in the same order, followed
\* by the new report stamped with the time of the save; and no step of the
\* program ever changes, reorders or removes a stored report.
C1_AppendOnlyHistory ==
    [][ LET H == get_previous_reports(store)
            H2 == get_previous_reports(store')
        IN  /\ Len(H2) >= Len(H)
            /\ \A i \in 1..Len(H) : H2[i] = H[i]
            /\ (events_run' # events_run /\ last_run' = [action |-> "make_snapshot", outcome |-> "ok"])
                 => /\ Len(H2) = Len(H) + 1
                    /\ H2[Len(H2)] = [time |-> clock' \div TicksPerSecond,
                                      total_usdt |-> crypto_report'.total_usdt,
                                      balances |-> crypto_report'.balances,
                                      tickers |-> crypto_report'.tickers] ]_vars

\* two different snapshots are stored, the second saved in the middle of a second
C1_Witness ==
    /\ store.exists
    /\ Len(get_previous_reports(store)) >= 2
    /\ get_previous_reports(store)[1].total_usdt # get_previous_reports(store)[2].total_usdt
    /\ get_previous_reports(store)[1].time < get_previous_reports(store)[2].time
    /\ last_run = [action |-> "make_snapshot", outcome |-> "ok"]
    /\ clock % TicksPerSecond # 0

\* C2: after a make_snapshot tick that failed because an external call
\* raised, a further make_snapshot run is scheduled for the next interval.
C2_FailedTickIsRetried ==
    (last_run = [action |-> "make_snapshot", outcome |-> "raised"])
        => \E ev \in scheduler : ev.action = "make_snapshot"

-----------------------------------------------------------------------------
(* Claims about the update checker                                         *)

\* C10: each of the two update notices is broadcast at most once, and when a
\* run of update_checker in which no send_message failed has ended, its next
\* run is scheduled if and only if at least one of the two
\* BROADCASTED_BEFORE flags is still False.
C10_BroadcastOnceAndReschedule ==
    /\ sent.tg <= 1
    /\ sent.btb <= 1
    /\ (last_run.action = "update_checker" /\ last_run.outcome # "TelegramError") =>
          ( (\E ev \in scheduler : ev.action = "update_checker")
            <=> ( \/ settings.TG_UPDATE_BROADCASTED_BEFORE = FALSE
                  \/ settings.BTB_UPDATE_BROADCASTED_BEFORE = FALSE ) )

-----------------------------------------------------------------------------
(* Claims about the chart renderer                                         *)

GraphHistory == get_previous_reports(store)

\* the symbols of the request, after the wildcard and the assertion
GraphSymbols ==
    IF gg_request.symbol = <<"*">> THEN settings.COIN_LIST ELSE gg_request.symbol

ValidGraphRequest ==
    \/ gg_request.symbol = <<"*">>
    \/ \A i \in 1..Len(gg_request.symbol) :
          gg_request.symbol[i] \in Range(settings.COIN_LIST) \cup {settings.CURRENCY}

\* C8: for a non-empty snapshot history and a valid chart request, get_graph
\* does not fail, however few points are plotted: it returns the path of a
\* chart.
C8_ChartAlwaysProduced ==
    (gg_result.status # "none" /\ Len(GraphHistory) > 0 /\ ValidGraphRequest)
        => (gg_result.status = "ok" /\ gg_result.figname # "None")

\* snapshot r contributes a point to the series of symbol s, as C9 states it
Contributes(r, s) ==
    /\ gg_request.days = 0 \/ r.time * TicksPerSecond >= clock - gg_request.days * 86400 * TicksPerSecond
    /\ s \in DOMAIN r.tickers
    /\ r.tickers[s] # 0
    /\ (gg_request.graph_type = "price" /\ gg_request.ref_currency \notin {"USD", "USDT"})
          => (gg_request.ref_currency \in DOMAIN r.tickers /\ r.tickers[gg_request.ref_currency] # 0)

\* the indexes of the snapshots that contribute to the series of symbol s
Contributing(s) == {i \in 1..Len(GraphHistory) : Contributes(GraphHistory[i], s)}

RECURSIVE SumOfCounts(_)
SumOfCounts(k) == IF k = 0 THEN 0 ELSE Cardinality(Contributing(GraphSymbols[k])) + SumOfCounts(k - 1)

=============================================================================
